---- MODULE Spec2Model ----
(***************************************************************************)
(* Model of olivia/histos.py: the Histogram accumulator (binning, out of   *)
(* range tally, uncertainties, merge) and the HistoManager registry.       *)
(*                                                                         *)
(* Objects live on a heap (a sequence of Histogram records, an object's id *)
(* is its index), so that aliasing (h + None returning h itself, a manager *)
(* holding a reference to a Histogram the caller also fills) is modelled.  *)
(***************************************************************************)
EXTENDS Integers, Sequences, FiniteSets, TLC

\* Most observations handed to the Histograms of one run, over all fills.
MaxObs == 2
\* Most observations handed to the Histogram of one run of the weighted
\* fills, over all fills.
MaxSplit == 3
\* Longest sequence of Histograms folded with +.
MaxFold == 3
\* The Histograms of one run of the merges or of the manager: the two
\* operands of +, self and other.
Operands == 2

(***************************************************************************)
(* Numbers.  A coordinate is a float: a number or NaN (every comparison    *)
(* with NaN is false).                                                     *)
(***************************************************************************)
Num(x) == [nan |-> FALSE, v |-> x]
NaN == [nan |-> TRUE, v |-> 0]
Coords == {Num(x) : x \in -1 .. 3} \cup {NaN}

(***************************************************************************)
(* The cells of data and the weights are float64 numbers.  The ones met    *)
(* here are the non-negative integers hi * 2^53 + lo with lo far below     *)
(* 2^53, held as the pair of hi and lo: below 2^53 (hi = 0) every integer  *)
(* is a float64, from 2^53 on only the multiples of the spacing are, 2 up  *)
(* to 2^54, 4 up to 2^55 and so on.                                        *)
(***************************************************************************)
Flt(n) == [hi |-> 0, lo |-> n]
Two53 == [hi |-> 1, lo |-> 0]
\* The integer a float64 below 2^53 is.
Whole(x) == x.lo

\* The spacing of the float64 numbers from hi * 2^53 to (hi + 1) * 2^53.
RECURSIVE Ulp(_)
Ulp(hi) == IF hi = 0 THEN 1 ELSE 2 * Ulp(hi \div 2)

\* The float64 nearest to hi * 2^53 + lo, the one of even mantissa when two
\* are as near (IEEE 754 round to nearest, ties to even).
fl(hi, lo) ==
    LET s == Ulp(hi)
        q == lo \div s
        r == lo % s
    IN  [hi |-> hi,
         lo |-> IF 2 * r < s \/ (2 * r = s /\ q % 2 = 0) THEN q * s ELSE (q + 1) * s]

\* x + y of two float64: the exact sum, rounded.
fadd(x, y) == fl(x.hi + y.hi, x.lo + y.lo)

\* The weights tried in the fills: sums of them stay exact.
Weights == {Flt(1), Flt(2)}
\* The weights tried in the weighted fills: 2^53 too, the sum of which with
\* 1 is no float64.
BigWeights == Weights \cup {Two53}

\* x < e and x > e of a float x and a bin edge e, as IEEE compares them.
Less(x, e) == ~x.nan /\ x.v < e
Greater(x, e) == ~x.nan /\ x.v > e

\* Python's None and a present value, for optional arguments.
None == <<>>
Some(x) == <<x>>

Max(S) == CHOOSE x \in S : \A y \in S : y <= x

\* f[1] + ... + f[n] as np.bincount adds weights: one after the other, in
\* float64, from 0.0.
RECURSIVE SumTo(_, _)
SumTo(f, n) == IF n = 0 THEN Flt(0) ELSE fadd(SumTo(f, n - 1), f[n])

(***************************************************************************)
(* numpy arrays: a shape and one cell per index tuple.                     *)
(***************************************************************************)
Indices(shape) ==
    {idx \in [1 .. Len(shape) -> 1 .. Max({1} \cup {shape[d] : d \in 1 .. Len(shape)})] :
        \A d \in 1 .. Len(shape) : idx[d] <= shape[d]}

\* np.full(shape, x)
full(shape, x) == [shape |-> shape, cell |-> [idx \in Indices(shape) |-> x]]

\* np.zeros(shape) for data, and for out_range: its cells are counts of
\* observations, which float64 holds and adds exactly, kept as integers.
zeros(shape) == full(shape, Flt(0))
zero_counts(shape) == full(shape, 0)

\* numpy broadcasting of two shapes: aligned at the trailing dimension, a
\* dimension of 1 stretches.
Pad(s, r) == [d \in 1 .. r |-> IF d <= r - Len(s) THEN 1 ELSE s[d - (r - Len(s))]]
Rank(a, b) == Max({Len(a.shape), Len(b.shape)})
broadcastable(a, b) ==
    \A d \in 1 .. Rank(a, b) :
        LET x == Pad(a.shape, Rank(a, b))[d]
            y == Pad(b.shape, Rank(a, b))[d]
        IN  x = y \/ x = 1 \/ y = 1
broadcast_shape(a, b) ==
    [d \in 1 .. Rank(a, b) |->
        LET x == Pad(a.shape, Rank(a, b))[d]
            y == Pad(b.shape, Rank(a, b))[d]
        IN  IF x = 1 THEN y ELSE x]
At(a, idx, r) ==
    a.cell[[d \in 1 .. Len(a.shape) |->
                IF a.shape[d] = 1 THEN 1 ELSE idx[d + (r - Len(a.shape))]]]

\* a + b of two float64 arrays (defined when broadcastable(a, b)).
np_add(a, b) ==
    [shape |-> broadcast_shape(a, b),
     cell  |-> [idx \in Indices(broadcast_shape(a, b)) |->
                    fadd(At(a, idx, Rank(a, b)), At(b, idx, Rank(a, b)))]]

\* a + b of two arrays of counts.
np_add_counts(a, b) ==
    [shape |-> broadcast_shape(a, b),
     cell  |-> [idx \in Indices(broadcast_shape(a, b)) |->
                    At(a, idx, Rank(a, b)) + At(b, idx, Rank(a, b))]]

(***************************************************************************)
(* Uncertainties are float64 numbers that are no integers: np.sqrt(2.0) is *)
(* 1.4142135623730951 and its square 2.0000000000000004.  A non-negative   *)
(* float64 is held as m * 2^e, its mantissa m = h * 2^27 + l of 53 bits    *)
(* (2^52 <= m < 2^53) in two words, h of 26 bits and l of 27 bits; 0.0 is  *)
(* e = h = l = 0.  Every operation gives the float64 nearest to the exact  *)
(* result, the one of even mantissa when two are as near.                  *)
(***************************************************************************)
F64(e, h, l) == [e |-> e, h |-> h, l |-> l]
Zero == F64(0, 0, 0)
Word == 2^27

\* x with its mantissa moved k bits up, if its k leading bits are 0.
shl(x, k) ==
    IF x.h < 2^(26 - k)
    THEN F64(x.e - k, x.h * 2^k + x.l \div 2^(27 - k), (x.l % 2^(27 - k)) * 2^k)
    ELSE x

\* The float64 that is the value h * 2^27 + l times 2^e of a mantissa with
\* leading zeros.
normalize(x) ==
    IF x.h = 0 /\ x.l = 0 THEN Zero
    ELSE shl(shl(shl(shl(shl(shl(x, 26), 13), 7), 3), 2), 1)

\* The number of bits of n.
RECURSIVE Bits(_)
Bits(n) == IF n = 0 THEN 0 ELSE 1 + Bits(n \div 2)

\* hi * 2^53 + lo, hi of k bits, as mantissa and exponent.
from_parts(hi, lo, k) ==
    normalize(F64(k, hi * 2^(26 - k) + (lo \div 2^k) \div Word, (lo \div 2^k) % Word))

\* A cell of data as mantissa and exponent.
as_f64(x) == from_parts(x.hi, x.lo, Bits(x.hi))

\* The mantissa h, l at exponent e, rounded on the bits cut off below it:
\* rb the first of them, sticky whether any other is set.
round(e, h, l, rb, sticky) ==
    IF rb = 1 /\ (sticky \/ l % 2 = 1)
    THEN IF l + 1 < Word THEN F64(e, h, l + 1)
         ELSE IF h + 1 < 2^26 THEN F64(e, h + 1, 0)
         ELSE F64(e + 1, 2^25, 0)
    ELSE F64(e, h, l)

\* The four digits of a mantissa in base 2^14, the lowest first.
limbs(x) ==
    << x.l % 2^14, x.l \div 2^14 + (x.h % 2) * 2^13, (x.h \div 2) % 2^14, x.h \div 2^15 >>

\* The columns of the product of two mantissas, digit by digit.
columns(a, b) ==
    << a[1] * b[1],
       a[1] * b[2] + a[2] * b[1],
       a[1] * b[3] + a[2] * b[2] + a[3] * b[1],
       a[1] * b[4] + a[2] * b[3] + a[3] * b[2] + a[4] * b[1],
       a[2] * b[4] + a[3] * b[3] + a[4] * b[2],
       a[3] * b[4] + a[4] * b[3],
       a[4] * b[4] >>

\* The digits in base 2^14 of the number with these columns, the carry taken
\* from one column to the next.
RECURSIVE digits(_, _)
digits(cols, carry) ==
    IF cols = <<>> THEN <<carry>>
    ELSE <<(Head(cols) + carry) % 2^14>> \o digits(Tail(cols), (Head(cols) + carry) \div 2^14)

\* The 53 leading bits of the product d of 105 or 106 bits, those from bit
\* 42 + s on, rounded on the bits below.
mul_round(e, d, s) ==
    round(e + 42 + s,
          d[6] \div 2^(s - 1) + d[7] * 2^(15 - s) + d[8] * 2^(29 - s),
          d[4] \div 2^s + d[5] * 2^(14 - s) + (d[6] % 2^(s - 1)) * 2^(28 - s),
          (d[4] \div 2^(s - 1)) % 2,
          d[4] % 2^(s - 1) # 0 \/ d[3] # 0 \/ d[2] # 0 \/ d[1] # 0)
mul_digits(e, d) == mul_round(e, d, IF d[8] >= 2^7 THEN 11 ELSE 10)

\* x * y of two float64.
f64_mul(x, y) ==
    IF x = Zero \/ y = Zero THEN Zero
    ELSE mul_digits(x.e + y.e, digits(columns(limbs(x), limbs(y)), 0))

\* 8 times a mantissa, in two words.
times8(x) == [H |-> x.h * 8 + (x.l * 8) \div Word, L |-> (x.l * 8) % Word]

\* w moved d bits down, its last bit set when a bit is lost below.
shr(w, d) ==
    LET k    == IF d < 27 THEN d ELSE d - 27
        L    == IF d < 27 THEN w.L \div 2^k + (w.H % 2^k) * 2^(27 - k) ELSE w.H \div 2^k
        lost == IF d < 27 THEN w.L % 2^k # 0 ELSE w.H % 2^k # 0 \/ w.L # 0
    IN  [H |-> IF d < 27 THEN w.H \div 2^k ELSE 0,
         L |-> L + (IF lost /\ L % 2 = 0 THEN 1 ELSE 0)]

\* The 53 leading bits of the sum SH * 2^27 + SL of 56 or 57 bits, those
\* from bit sh on, rounded on the bits below.
add_round(e, SH, SL, sh) ==
    round(e + sh - 3,
          SH \div 2^sh,
          SL \div 2^sh + (SH % 2^sh) * 2^(27 - sh),
          (SL % 2^sh) \div 2^(sh - 1),
          (SL % 2^sh) % 2^(sh - 1) # 0)
add_words(e, SH, SL) == add_round(e, SH, SL, IF SH >= 2^29 THEN 4 ELSE 3)
add_wide(e, X, Y) == add_words(e, X.H + Y.H + (X.L + Y.L) \div Word, (X.L + Y.L) % Word)

\* big + small of two float64 d binary places apart: the smaller is moved
\* down to the exponent of the larger, three more bits being kept of both.
add_aligned(big, small, d) ==
    IF d > 54 THEN big ELSE add_wide(big.e, times8(big), shr(times8(small), d))

\* x + y of two float64.
f64_add(x, y) ==
    IF x = Zero THEN y
    ELSE IF y = Zero THEN x
    ELSE IF x.e >= y.e THEN add_aligned(x, y, x.e - y.e)
    ELSE add_aligned(y, x, y.e - x.e)

\* The integer square root r and its remainder of the 54 bits WH * 2^26 + WL,
\* two bits at a time from the top: pairs 1 to 14 are in WH, 15 to 27 in WL.
RECURSIVE root27(_, _, _, _, _)
root27(WH, WL, i, r, rem) ==
    IF i > 27 THEN [r |-> r, rem |-> rem]
    ELSE LET t == 4 * rem + (IF i <= 14 THEN (WH \div 4^(14 - i)) % 4
                             ELSE (WL \div 4^(27 - i)) % 4)
         IN  IF t >= 4 * r + 1
             THEN root27(WH, WL, i + 1, 2 * r + 1, t - (4 * r + 1))
             ELSE root27(WH, WL, i + 1, 2 * r, t)

\* n more bits of the quotient q of a long division by D, rem being the
\* remainder so far: one bit when n is odd, else two.
RECURSIVE divide(_, _, _, _)
divide(rem, D, n, q) ==
    IF n = 0 THEN [q |-> q, rem |-> rem]
    ELSE IF n % 2 = 1
    THEN divide((2 * rem) % D, D, n - 1, 2 * q + (2 * rem) \div D)
    ELSE divide((4 * rem) % D, D, n - 2, 4 * q + (4 * rem) \div D)

\* q * q > rem * 2^27, for q = qh * 2^14 + ql.
exceeds(qh, ql, rem) ==
    LET t == ql * ql + ((2 * qh * ql) % 2^13) * 2^14
        H == 2 * qh * qh + (2 * qh * ql) \div 2^13 + t \div Word
    IN  rem < H \/ (rem = H /\ t % Word > 0)

\* The 54 bits of the integer square root of W * 2^54: the 27 bits of the
\* root of W and the quotient q of its remainder * 2^27 by twice that root,
\* one less when q * q exceeds what the division left.  53 of them are kept
\* and rounded on the last.
sqrt_round(e, top, q) ==
    round(e,
          (top.r + q \div Word) \div 2,
          (q % Word) \div 2 + ((top.r + q \div Word) % 2) * 2^26,
          q % 2,
          top.rem # 0)
sqrt_low(e, top, quo) ==
    sqrt_round(e, top,
               IF exceeds(quo.q \div 2^14, quo.q % 2^14, quo.rem) THEN quo.q - 1 ELSE quo.q)
sqrt_top(e, top) ==
    sqrt_low(e, top, divide(top.rem % (2 * top.r), 2 * top.r, 27, top.rem \div (2 * top.r)))

\* The square root of the mantissa h, l (c = 1) or of twice it (c = 2).
sqrt_mantissa(e, c, h, l) ==
    sqrt_top(e, root27(c * h * 2 + (c * l) \div 2^26, (c * l) % 2^26, 1, 0, 0))

\* np.sqrt(x) of a float64: the mantissa is doubled when the exponent is odd.
Sqrt(x) ==
    IF x = Zero THEN Zero
    ELSE IF x.e % 2 = 1 THEN sqrt_mantissa((x.e - 55) \div 2 + 1, 2, x.h, x.l)
    ELSE sqrt_mantissa((x.e - 54) \div 2 + 1, 1, x.h, x.l)

\* e ** 2
Square(e) == f64_mul(e, e)

\* A non-negative integer as an uncertainty, and an array of float64
\* integers as uncertainties.
Exact(x) == as_f64(Flt(x))
as_errors(a) ==
    [shape |-> a.shape, cell |-> [idx \in Indices(a.shape) |-> as_f64(a.cell[idx])]]

\* np.sqrt(a), element-wise, of an array of data.
np_sqrt(a) ==
    [shape |-> a.shape, cell |-> [idx \in Indices(a.shape) |-> Sqrt(as_f64(a.cell[idx]))]]

\* np.sqrt(a ** 2 + b ** 2) of two arrays of uncertainties.
np_quadrature(a, b) ==
    [shape |-> broadcast_shape(a, b),
     cell  |-> [idx \in Indices(broadcast_shape(a, b)) |->
                    Sqrt(f64_add(Square(At(a, idx, Rank(a, b))),
                                 Square(At(b, idx, Rank(a, b)))))]]

(***************************************************************************)
(* Histogram                                                               *)
(***************************************************************************)

\* Histogram.init_from_bins
init_from_bins(bins) == zeros([d \in 1 .. Len(bins) |-> Len(bins[d]) - 1])

\* A batch is N rows (one per dimension) of M coordinates; len(additive.T).
NObs(additive) == Len(additive[1])

\* A binning of half-open bins throughout, the last one included: what
\* Ncount would be without histogramdd's shift of the last edge.
Ncount_half_open(edges, x) ==
    IF x.nan THEN Len(edges) ELSE Cardinality({k \in 1 .. Len(edges) : edges[k] <= x.v})

\* np.searchsorted(edges, x, side='right'), then histogramdd's shift of the
\* points on the last edge into the last bin: 0 is the underflow bin,
\* Len(edges) the overflow bin (NaN sorts after every edge).
Ncount(edges, x) ==
    LET right == IF x.nan THEN Len(edges)
                 ELSE Cardinality({k \in 1 .. Len(edges) : edges[k] <= x.v})
    IN  IF ~x.nan /\ x.v = edges[Len(edges)] THEN right - 1 ELSE right

\* np.histogramdd(data.T, bins, weights): the outlier bins are dropped.
histogramdd(additive, bins, weights) ==
    LET shape == [d \in 1 .. Len(bins) |-> Len(bins[d]) - 1]
    IN  [shape |-> shape,
         cell  |-> [idx \in Indices(shape) |->
                      SumTo([j \in 1 .. NObs(additive) |->
                               IF \A d \in 1 .. Len(bins) :
                                      Ncount(bins[d], additive[d][j]) = idx[d]
                               THEN weights[j] ELSE Flt(0)],
                            NObs(additive))]]

\* A tally that takes the lower edge itself for out of range (row <= limit).
count_below_inclusive(row, limit) ==
    Cardinality({j \in 1 .. Len(row) : ~row[j].nan /\ row[j].v <= limit})

\* np.count_nonzero(row < limit), np.count_nonzero(row > limit)
count_below(row, limit) == Cardinality({j \in 1 .. Len(row) : Less(row[j], limit)})
count_above(row, limit) == Cardinality({j \in 1 .. Len(row) : Greater(row[j], limit)})

\* count_out_of_range without its final transposition: one row per
\* dimension, column 1 the underflows, column 2 the overflows.
count_out_of_range_untransposed(bins, data) ==
    [shape |-> <<Len(bins), 2>>,
     cell  |-> [idx \in Indices(<<Len(bins), 2>>) |->
                  IF idx[2] = 1
                  THEN count_below(data[idx[1]], bins[idx[1]][1])
                  ELSE count_above(data[idx[1]], bins[idx[1]][Len(bins[idx[1]])])]]

\* Histogram.count_out_of_range: row 1 the underflows, row 2 the overflows,
\* one column per dimension.
count_out_of_range(bins, data) ==
    [shape |-> <<2, Len(bins)>>,
     cell  |-> [idx \in Indices(<<2, Len(bins)>>) |->
                  IF idx[1] = 1
                  THEN count_below(data[idx[2]], bins[idx[2]][1])
                  ELSE count_above(data[idx[2]], bins[idx[2]][Len(bins[idx[2]])])]]

\* Histogram.bin_data
bin_data(self, data, data_weights) ==
    [binned_data  |-> histogramdd(data, self.bins, data_weights),
     out_of_range |-> count_out_of_range(self.bins, data)]

\* Histogram.update_errors
update_errors(self, errors) ==
    [self EXCEPT !.errors = IF errors = None THEN np_sqrt(self.data) ELSE errors[1]]

\* An accumulation that assigns the batch's counts to data instead of adding
\* them (data = binnedData).
accumulate_overwrite(self, binned) ==
    [self EXCEPT !.data      = binned.binned_data,
                 !.out_range = np_add_counts(@, binned.out_of_range)]

\* The accumulation of Histogram.fill: data += binnedData, out_range += outRange.
accumulate(self, binned) ==
    [self EXCEPT !.data      = np_add(@, binned.binned_data),
                 !.out_range = np_add_counts(@, binned.out_of_range)]

\* A fill that tallies the out of range observations before it tests the
\* length of the weights.
fill_tally_first(self, additive, data_weights) ==
    LET weights == IF data_weights = None
                   THEN [j \in 1 .. NObs(additive) |-> Flt(1)]
                   ELSE data_weights[1]
        tallied == [self EXCEPT !.out_range =
                       np_add_counts(@, count_out_of_range(self.bins, additive))]
    IN  IF Len(weights) # NObs(additive)
        THEN [exc |-> "ValueError", self |-> tallied]
        ELSE [exc  |-> "none",
              self |-> update_errors(
                          [tallied EXCEPT !.data = np_add(@, histogramdd(additive, self.bins, weights))],
                          None)]

\* A fill that leaves errors as they are (no update_errors at its end).
fill_keep_errors(self, additive, data_weights) ==
    LET weights == IF data_weights = None
                   THEN [j \in 1 .. NObs(additive) |-> Flt(1)]
                   ELSE data_weights[1]
    IN  IF Len(weights) # NObs(additive)
        THEN [exc |-> "ValueError", self |-> self]
        ELSE [exc  |-> "none",
              self |-> accumulate(self, bin_data(self, additive, weights))]

\* Histogram.fill: the exception raised ("none" when it returns) and the
\* object as the call leaves it.
fill(self, additive, data_weights) ==
    LET weights == IF data_weights = None
                   THEN [j \in 1 .. NObs(additive) |-> Flt(1)]
                   ELSE data_weights[1]
    IN  IF Len(weights) # NObs(additive)
        THEN [exc |-> "ValueError", self |-> self]
        ELSE [exc  |-> "none",
              self |-> update_errors(accumulate(self, bin_data(self, additive, weights)), None)]

\* Histogram.__init__
Histogram(title, bins, labels, scale, values) ==
    LET empty == [title     |-> title,
                  bins      |-> bins,
                  data      |-> init_from_bins(bins),
                  errors    |-> as_errors(init_from_bins(bins)),
                  out_range |-> zero_counts(<<2, Len(bins)>>),
                  labels    |-> labels,
                  scale     |-> scale]
    IN  IF values = None THEN empty ELSE fill(empty, values[1], None).self

\* Histogram._check_valid_binning: TRUE when it raises.  np.all is handed a
\* generator object, not the comparisons it would yield: the generator is
\* never run and the object is truthy, so the second operand of `or` is
\* always False.
np_all_generator(self_bins, bins) == TRUE
check_valid_binning_raises(self, bins) ==
    Len(self.bins) # Len(bins) \/ ~np_all_generator(self.bins, bins)

\* The warnings Histogram.__add__ prints.
add_warnings(self, other) ==
    (IF self.title # other.title THEN {"titles"} ELSE {})
        \cup (IF self.labels # other.labels THEN {"labels"} ELSE {})

\* A merge whose errors are the square root of the merged data.
add_new_sqrt(self, other) ==
    [title     |-> self.title,
     bins      |-> self.bins,
     data      |-> np_add(self.data, other.data),
     errors    |-> np_sqrt(np_add(self.data, other.data)),
     out_range |-> np_add_counts(self.out_range, other.out_range),
     labels    |-> self.labels,
     scale     |-> self.scale]

\* The new Histogram of Histogram.__add__ (defined when the operands'
\* arrays broadcast).
add_new(self, other) ==
    [Histogram(self.title, self.bins, self.labels, self.scale, None)
        EXCEPT !.data      = np_add(self.data, other.data),
               !.out_range = np_add_counts(self.out_range, other.out_range),
               !.errors    = np_quadrature(self.errors, other.errors),
               !.scale     = self.scale]

\* Histogram.__add__ past its test for None: the exception raised ("none"
\* when it returns), its message, whether the result is the object self
\* itself, the result and the warnings printed.
add_histogram(self, other) ==
    IF check_valid_binning_raises(self, other.bins)
    THEN [exc |-> "ValueError", msg |-> "Histogram binning is not compatible",
          same |-> FALSE, ret |-> None, warn |-> {}]
    ELSE IF \/ ~broadcastable(self.data, other.data)
            \/ ~broadcastable(self.out_range, other.out_range)
            \/ ~broadcastable(self.errors, other.errors)
    THEN [exc |-> "ValueError", msg |-> "operands could not be broadcast together",
          same |-> FALSE, ret |-> None, warn |-> add_warnings(self, other)]
    ELSE [exc |-> "none", msg |-> "", same |-> FALSE,
          ret |-> Some(add_new(self, other)), warn |-> add_warnings(self, other)]

\* An __add__ without the test for None: None has no bins, the access to
\* other.bins raises AttributeError.
add_strict(self, other) ==
    IF other = None
    THEN [exc |-> "AttributeError", msg |-> "'NoneType' object has no attribute 'bins'",
          same |-> FALSE, ret |-> None, warn |-> {}]
    ELSE add_histogram(self, other[1])

\* Histogram.__add__(self, other), other being None or Some(Histogram).
add(self, other) ==
    IF other = None
    THEN [exc |-> "none", msg |-> "", same |-> TRUE, ret |-> Some(self), warn |-> {}]
    ELSE add_histogram(self, other[1])

\* Histogram.__radd__
radd(self, other) == add(self, other)

\* acc + h as Python evaluates it for acc None or a Histogram: None has no
\* __add__, so None + h is h.__radd__(None).
plus(acc, h) == IF acc = None THEN radd(h, None) ELSE add(acc[1], Some(h))

\* The left fold of + over a sequence of Histograms, starting from None:
\* the first exception ends it.
RECURSIVE fold_add(_, _)
fold_add(acc, hs) ==
    IF hs = <<>> THEN [exc |-> "none", ret |-> acc]
    ELSE LET r == plus(acc, Head(hs))
         IN  IF r.exc # "none" THEN [exc |-> r.exc, ret |-> None]
             ELSE fold_add(r.ret, Tail(hs))

(***************************************************************************)
(* HistoManager                                                            *)
(***************************************************************************)

\* HistoManager.__setitem__: the dict, a function from its keys to object ids.
setitem(dict, histoname, id) ==
    [k \in DOMAIN dict \cup {histoname} |-> IF k = histoname THEN id ELSE dict[k]]

\* HistoManager.new_histogram
new_histogram(dict, objects, id) == setitem(dict, objects[id].title, id)

\* HistoManager.__init__
RECURSIVE manager_init(_, _, _)
manager_init(dict, objects, histograms) ==
    IF histograms = <<>> THEN dict
    ELSE manager_init(new_histogram(dict, objects, Head(histograms)), objects, Tail(histograms))

\* A fill_histograms that stops at the first name that is not registered.
RECURSIVE fill_histograms_abort(_, _, _)
fill_histograms_abort(dict, objects, additives) ==
    IF additives = <<>> THEN [objects |-> objects, missing |-> <<>>]
    ELSE IF Head(additives).key \in DOMAIN dict
         THEN fill_histograms_abort(dict,
                  [objects EXCEPT ![dict[Head(additives).key]] =
                                      fill(@, Head(additives).additive, None).self],
                  Tail(additives))
         ELSE [objects |-> objects, missing |-> <<Head(additives).key>>]

\* HistoManager.fill_histograms over the items of additives, in order: the
\* objects as the loop leaves them and the names it printed as missing.
RECURSIVE fill_histograms(_, _, _)
fill_histograms(dict, objects, additives) ==
    IF additives = <<>> THEN [objects |-> objects, missing |-> <<>>]
    ELSE LET histoname == Head(additives).key
             additive  == Head(additives).additive
         IN  IF histoname \in DOMAIN dict
             THEN fill_histograms(dict,
                      [objects EXCEPT ![dict[histoname]] = fill(@, additive, None).self],
                      Tail(additives))
             ELSE LET rest == fill_histograms(dict, objects, Tail(additives))
                  IN  [rest EXCEPT !.missing = <<histoname>> \o @]

(***************************************************************************)
(* The program's state.                                                    *)
(***************************************************************************)
VARIABLES
    heap,    \* the Histogram objects, by id
    histos,  \* HistoManager.histos: key -> id of the Histogram
    used,    \* observations handed to fill calls so far (history)
    nobs,    \* per object, what its fills accumulated (history): n observations,
             \* nan of them with a NaN coordinate, unit: all with weight 1
    last,    \* the last call: operation, arguments, exception, result
    pre      \* the heap as the last call found it

vars == <<heap, histos, used, nobs, last, pre>>

Ids == 1 .. Len(heap)

\* The Histograms the callers construct: title, bins, labels, scale.
HistoDefs ==
    { [title |-> "a", bins |-> << <<0, 1, 2>> >>,           labels |-> <<"x">>,      scale |-> "linear"],
      [title |-> "b", bins |-> << <<0, 1, 2>> >>,           labels |-> <<"y">>,      scale |-> "log"],
      [title |-> "a", bins |-> << <<0, 1, 3>> >>,           labels |-> <<"x">>,      scale |-> "linear"],
      [title |-> "d", bins |-> << <<0, 2>> >>,              labels |-> <<"x">>,      scale |-> "linear"],
      [title |-> "c", bins |-> << <<0, 1, 2>>, <<0, 2>> >>, labels |-> <<"x", "y">>, scale |-> "linear"] }

\* The Histograms filled on their own: one of each binning.
FilledDefs == {def \in HistoDefs : def.title # "b"}

\* The Histograms added to each other: those of two bins along the first
\* dimension, two of them with the same bins and two with the same title.
MergedDefs == {def \in HistoDefs : Len(def.bins[1]) = 3}

\* The Histograms handed to the manager: the 1-dimensional ones of two bins,
\* two of them with the same title.
ManagedDefs == {def \in HistoDefs : Len(def.bins) = 1 /\ Len(def.bins[1]) = 3}

\* The keys used with the manager: the titles and a name no Histogram has.
Keys == {"a", "b", "z"}

\* The coordinates tried along dimension d.  A 1-dimensional Histogram is
\* tried with every float of Coords.  With more dimensions the first gets a
\* float below its range, its first edge and its last edge, and the others a
\* float below, the last edge and a float above.
DimCoords(bins, d) ==
    LET lo == bins[d][1]
        hi == bins[d][Len(bins[d])]
    IN  IF Len(bins) = 1 THEN Coords
        ELSE IF d = 1 THEN {Num(lo - 1), Num(lo), Num(hi)}
        ELSE {Num(lo - 1), Num(hi), Num(hi + 1)}

\* The batches of m observations for a binning, as rows 1 .. d of the N
\* rows (one per dimension) of m floats.
RECURSIVE Rows(_, _, _)
Rows(bins, m, d) ==
    IF d = 0 THEN {<<>>}
    ELSE {Append(rows, row) : rows \in Rows(bins, m, d - 1),
                              row \in [1 .. m -> DimCoords(bins, d)]}

\* The batches of at most n observations for a binning.
Batches(bins, n) == UNION {Rows(bins, m, Len(bins)) : m \in 0 .. n}

\* The batches of the merges and of the manager, which do not depend on the
\* binning of a float: a float below the range, one in the first bin and one
\* in the last.
CoarseCoords == {Num(-1), Num(0), Num(2)}
CoarseBatches(bins, n) ==
    {b \in Batches(bins, n) :
        \A d \in 1 .. Len(b) : \A j \in 1 .. Len(b[d]) : b[d][j] \in CoarseCoords}

\* The data_weights arguments tried with a batch of m observations: none,
\* every weighting of the right length, and unit weights one too many.
WeightArgs(m) ==
    {None} \cup {Some(w) : w \in [1 .. m -> Weights]}
           \cup {Some([j \in 1 .. m + 1 |-> Flt(1)])}

\* The data_weights arguments tried in the weighted fills.
SplitWeightArgs(m) == {None} \cup {Some(w) : w \in [1 .. m -> BigWeights]}

\* The arrays a caller hands to update_errors: one of the shape of data and
\* one of another shape (update_errors validates neither).
ErrorArgs(self) ==
    {None, Some(full(self.data.shape, Exact(3))), Some(full(<<3>>, Exact(1)))}

\* No call is on record: the caller is about to make its next call.
Idle == [op |-> "idle", exc |-> "none"]

\* The history of an object after one more successful fill.
HasNaN(additive, j) == \E d \in 1 .. Len(additive) : additive[d][j].nan
Account(rec, additive, data_weights) ==
    [n    |-> rec.n + NObs(additive),
     nan  |-> rec.nan + Cardinality({j \in 1 .. NObs(additive) : HasNaN(additive, j)}),
     unit |-> rec.unit /\ (data_weights = None
                            \/ \A j \in 1 .. NObs(additive) : data_weights[1][j] = Flt(1))]
NoFills == [n |-> 0, nan |-> 0, unit |-> TRUE]

Init ==
    /\ heap = <<>>
    /\ histos = [k \in {} |-> 0]
    /\ used = 0
    /\ nobs = <<>>
    /\ last = Idle
    /\ pre = <<>>

\* h = Histogram(title, bins, labels, scale, values)
Construct(def, values) ==
    /\ heap' = Append(heap, Histogram(def.title, def.bins, def.labels, def.scale, values))
    /\ used' = used + (IF values = None THEN 0 ELSE NObs(values[1]))
    /\ nobs' = Append(nobs, IF values = None THEN NoFills
                             ELSE Account(NoFills, values[1], None))
    /\ last' = [op |-> "init", id |-> Len(heap) + 1, values |-> values, exc |-> "none"]
    /\ pre' = heap
    /\ UNCHANGED histos

\* heap[id].fill(additive, data_weights)
CallFill(id, additive, data_weights) ==
    LET r == fill(heap[id], additive, data_weights)
    IN  /\ heap' = [heap EXCEPT ![id] = r.self]
        /\ used' = used + NObs(additive)
        /\ nobs' = [nobs EXCEPT ![id] = IF r.exc = "none"
                                        THEN Account(@, additive, data_weights) ELSE @]
        /\ last' = [op |-> "fill", id |-> id, additive |-> additive,
                    data_weights |-> data_weights, exc |-> r.exc]
        /\ pre' = heap
        /\ UNCHANGED histos

\* heap[id].update_errors(errors)
CallUpdateErrors(id, errors) ==
    /\ heap' = [heap EXCEPT ![id] = update_errors(@, errors)]
    /\ last' = [op |-> "update_errors", id |-> id, errors |-> errors, exc |-> "none"]
    /\ pre' = heap
    /\ UNCHANGED <<histos, used, nobs>>

\* heap[id] + other, other being None or Some(id of a Histogram)
CallAdd(id, other) ==
    LET r == add(heap[id], IF other = None THEN None ELSE Some(heap[other[1]]))
    IN  /\ last' = [op |-> "add", id |-> id, other |-> other, exc |-> r.exc, msg |-> r.msg,
                    same |-> r.same, ret |-> r.ret, warn |-> r.warn]
        /\ pre' = heap
        /\ UNCHANGED <<heap, histos, used, nobs>>

\* None + heap[id]
CallRAdd(id) ==
    LET r == radd(heap[id], None)
    IN  /\ last' = [op |-> "radd", id |-> id, other |-> None, exc |-> r.exc, msg |-> r.msg,
                    same |-> r.same, ret |-> r.ret, warn |-> r.warn]
        /\ pre' = heap
        /\ UNCHANGED <<heap, histos, used, nobs>>

\* manager = HistoManager(histograms)
CallHistoManager(histograms) ==
    /\ histos' = manager_init([k \in {} |-> 0], heap, histograms)
    /\ last' = [op |-> "manager", histograms |-> histograms, exc |-> "none"]
    /\ pre' = heap
    /\ UNCHANGED <<heap, used, nobs>>

\* manager.new_histogram(heap[id])
CallNewHistogram(id) ==
    /\ histos' = new_histogram(histos, heap, id)
    /\ last' = [op |-> "new_histogram", id |-> id, was |-> histos, exc |-> "none"]
    /\ pre' = heap
    /\ UNCHANGED <<heap, used, nobs>>

\* manager[histoname] = heap[id]
CallSetItem(histoname, id) ==
    /\ histos' = setitem(histos, histoname, id)
    /\ last' = [op |-> "setitem", key |-> histoname, id |-> id, was |-> histos, exc |-> "none"]
    /\ pre' = heap
    /\ UNCHANGED <<heap, used, nobs>>

\* manager[histoname]
CallGetItem(histoname) ==
    /\ last' = IF histoname \in DOMAIN histos
               THEN [op |-> "getitem", key |-> histoname, exc |-> "none", ret |-> Some(histos[histoname])]
               ELSE [op |-> "getitem", key |-> histoname, exc |-> "KeyError", ret |-> None]
    /\ pre' = heap
    /\ UNCHANGED <<heap, histos, used, nobs>>

\* Observations in the batches of additives.
RECURSIVE Handed(_)
Handed(additives) ==
    IF additives = <<>> THEN 0
    ELSE NObs(Head(additives).additive) + Handed(Tail(additives))

\* The histories after fill_histograms(additives).
RECURSIVE AccountAll(_, _, _)
AccountAll(dict, recs, additives) ==
    IF additives = <<>> THEN recs
    ELSE AccountAll(dict,
             IF Head(additives).key \in DOMAIN dict
             THEN [recs EXCEPT ![dict[Head(additives).key]] =
                      Account(@, Head(additives).additive, None)]
             ELSE recs,
             Tail(additives))

\* manager.fill_histograms(additives)
CallFillHistograms(additives) ==
    LET r == fill_histograms(histos, heap, additives)
    IN  /\ heap' = r.objects
        /\ used' = used + Handed(additives)
        /\ nobs' = AccountAll(histos, nobs, additives)
        /\ last' = [op |-> "fill_histograms", additives |-> additives,
                    was |-> histos, missing |-> r.missing, exc |-> "none"]
        /\ pre' = heap
        /\ UNCHANGED histos

\* The caller takes the result of the last call and goes on: the record of
\* the call is dropped, the program's objects stay as they are.
Continue ==
    /\ last # Idle
    /\ last' = Idle
    /\ pre' = <<>>
    /\ UNCHANGED <<heap, histos, used, nobs>>

(***************************************************************************)
(* One Histogram: constructed, then filled and its errors set in any order.*)
(***************************************************************************)
Next ==
    \/ /\ last = Idle
       /\ heap = <<>>
       /\ \E def \in FilledDefs :
          \E values \in {None} \cup {Some(b) : b \in Batches(def.bins, MaxObs)} :
             Construct(def, values)
    \/ /\ last = Idle
       /\ \E id \in Ids :
          \E additive \in Batches(heap[id].bins, MaxObs - used) :
          \E data_weights \in WeightArgs(NObs(additive)) :
             CallFill(id, additive, data_weights)
    \/ /\ last = Idle
       /\ \E id \in Ids : \E errors \in ErrorArgs(heap[id]) : CallUpdateErrors(id, errors)
    \/ Continue

Spec == Init /\ [][Next]_vars

(***************************************************************************)
(* Weighted fills: one Histogram is constructed empty and filled, batch    *)
(* after batch, with weights that reach 2^53.                              *)
(***************************************************************************)
SplitDefs == {def \in FilledDefs : Len(def.bins[1]) = 3 /\ def.bins[1][3] = 2}

\* The batches of the weighted fills: floats below the range, in the first
\* bin and in the last; with more dimensions than one, below the range and
\* in the last bin.
SplitBatches(bins, n) ==
    {b \in CoarseBatches(bins, n) :
        Len(bins) = 1 \/ \A d \in 1 .. Len(b) : \A j \in 1 .. Len(b[d]) : b[d][j] # Num(0)}

NextSplit ==
    \/ /\ last = Idle
       /\ heap = <<>>
       /\ \E def \in SplitDefs : Construct(def, None)
    \/ /\ last = Idle
       /\ \E id \in Ids :
          \E additive \in SplitBatches(heap[id].bins, MaxSplit - used) :
          \E data_weights \in SplitWeightArgs(NObs(additive)) :
             CallFill(id, additive, data_weights)
    \/ Continue

SpecSplit == Init /\ [][NextSplit]_vars

(***************************************************************************)
(* Merges: Histograms are constructed, some with values, their errors set, *)
(* and added to each other and to None.                                    *)
(***************************************************************************)
NextMerge ==
    \/ /\ last = Idle
       /\ Len(heap) < Operands
       /\ \E def \in MergedDefs :
          \E values \in {None} \cup {Some(b) : b \in CoarseBatches(def.bins, MaxObs - used)} :
             Construct(def, values)
    \/ /\ last = Idle
       /\ \E id \in Ids : \E errors \in ErrorArgs(heap[id]) : CallUpdateErrors(id, errors)
    \/ /\ last = Idle
       /\ \E id \in Ids : \E other \in {None} \cup {Some(o) : o \in Ids} : CallAdd(id, other)
    \/ /\ last = Idle
       /\ \E id \in Ids : CallRAdd(id)
    \/ Continue

SpecMerge == Init /\ [][NextMerge]_vars

(***************************************************************************)
(* The manager: empty Histograms are constructed, registered under their   *)
(* titles or under other keys, looked up and filled by name.               *)
(***************************************************************************)

\* The batches of 1 to n observations handed under a key: batches for the
\* Histogram registered under it, 1-dimensional ones for a missing key.
BatchesFor(key, n) ==
    {b \in (IF key \in DOMAIN histos THEN CoarseBatches(heap[histos[key]].bins, n)
                                      ELSE CoarseBatches(<< <<0, 1, 2>> >>, n)) : NObs(b) > 0}

\* The additives dicts with keys among keys and at most n observations, as
\* the sequence of their items.
RECURSIVE Additives(_, _)
Additives(keys, n) ==
    {<<>>} \cup UNION {UNION {{<<[key |-> key, additive |-> additive]>> \o rest :
                                 rest \in Additives(keys \ {key}, n - NObs(additive))} :
                              additive \in BatchesFor(key, n)} :
                       key \in keys}

\* The sequences of at most n objects.
ObjectSeqs(n) == UNION {[1 .. m -> Ids] : m \in 0 .. n}

NextManager ==
    \/ /\ last = Idle
       /\ Len(heap) < Operands
       /\ \E def \in ManagedDefs : Construct(def, None)
    \/ /\ last = Idle
       /\ \E histograms \in ObjectSeqs(Operands) : CallHistoManager(histograms)
    \/ /\ last = Idle
       /\ \E id \in Ids : CallNewHistogram(id)
    \/ /\ last = Idle
       /\ \E id \in Ids : CallSetItem("z", id)
    \/ /\ last = Idle
       /\ \E histoname \in Keys : CallGetItem(histoname)
    \/ /\ last = Idle
       /\ \E additives \in Additives(Keys, MaxObs - used) : CallFillHistograms(additives)
    \/ Continue

SpecManager == Init /\ [][NextManager]_vars

(***************************************************************************)
(* What the last call did, for the properties below.                       *)
(***************************************************************************)

\* The last call was a fill: fill itself, or a construction with values.
IsFill == last.op = "fill" \/ (last.op = "init" /\ last.values # None)
FillOk == IsFill /\ last.exc = "none"
\* The object filled, after the call and as the call found it (the constructor
\* fills the object it has just zeroed).
After == heap[last.id]
Before ==
    IF last.op # "init" THEN pre[last.id]
    ELSE [After EXCEPT !.data      = zeros(@.shape),
                       !.errors    = full(After.data.shape, Zero),
                       !.out_range = zero_counts(@.shape)]
Batch == IF last.op = "fill" THEN last.additive ELSE last.values[1]
WeightsArg == IF last.op = "fill" THEN last.data_weights ELSE None
WeightOf(j) == IF WeightsArg = None THEN Flt(1) ELSE WeightsArg[1][j]

\* The shape the binning gives data.
BinShape(bins) == [d \in 1 .. Len(bins) |-> Len(bins[d]) - 1]
\* The sum of the cells of an array of counts, and of an array of float64
\* integers that stay below 2^53.
RECURSIVE SumOver(_, _)
SumOver(f, S) ==
    IF S = {} THEN 0
    ELSE LET x == CHOOSE y \in S : TRUE IN f[x] + SumOver(f, S \ {x})
SumCounts(a) == SumOver(a.cell, DOMAIN a.cell)
SumCells(a) == SumOver([idx \in DOMAIN a.cell |-> Whole(a.cell[idx])], DOMAIN a.cell)
\* Observation j of the batch lies, in every dimension, between the first and
\* the last edge, both included.
InRange(bins, additive, j) ==
    \A d \in 1 .. Len(bins) :
        /\ ~additive[d][j].nan
        /\ bins[d][1] <= additive[d][j].v
        /\ additive[d][j].v <= bins[d][Len(bins[d])]
\* The observations of a batch from the a-th to the b-th, and the matching
\* part of the data_weights argument.
Part(additive, a, b) == [d \in 1 .. Len(additive) |-> SubSeq(additive[d], a, b)]
PartW(data_weights, a, b) ==
    IF data_weights = None THEN None ELSE Some(SubSeq(data_weights[1], a, b))

(***************************************************************************)
(* C2.  As claimed: in every state, data.shape is (len(bins[0])-1, ...,    *)
(* len(bins[N-1])-1), errors.shape equals data.shape and out_range.shape   *)
(* is (2, N).                                                              *)
(***************************************************************************)
C2_ShapesAlways ==
    \A id \in Ids :
        /\ heap[id].data.shape = BinShape(heap[id].bins)
        /\ heap[id].errors.shape = heap[id].data.shape
        /\ heap[id].out_range.shape = <<2, Len(heap[id].bins)>>

(***************************************************************************)
(* C2, amended.  data.shape and out_range.shape are as claimed in every    *)
(* state and no call changes them; errors.shape equals data.shape after    *)
(* the construction, after every fill that returns and after               *)
(* update_errors() without argument, whereas update_errors(e) leaves       *)
(* errors with the shape of e, whatever it is, until the next fill.        *)
(***************************************************************************)
C2_ShapesAmended ==
    /\ \A id \in Ids :
        /\ heap[id].data.shape = BinShape(heap[id].bins)
        /\ DOMAIN heap[id].data.cell = Indices(BinShape(heap[id].bins))
        /\ heap[id].out_range.shape = <<2, Len(heap[id].bins)>>
        /\ id \in DOMAIN pre => heap[id].data.shape = pre[id].data.shape
    /\ last.op = "init" => After.errors.shape = After.data.shape
    /\ FillOk => After.errors.shape = After.data.shape
    /\ (last.op = "update_errors" /\ last.errors = None) =>
            After.errors.shape = After.data.shape
    /\ (last.op = "update_errors" /\ last.errors # None) =>
            After.errors.shape = last.errors[1].shape
    /\ (last.op = "fill" /\ last.exc # "none") =>
            After.errors.shape = Before.errors.shape

\* update_errors has just installed an array of another shape than data on
\* a Histogram that had been filled.
C2_Witness ==
    /\ last.op = "update_errors"
    /\ last.errors # None
    /\ After.errors.shape # After.data.shape
    /\ nobs[last.id].n > 0

\* A fill has returned on a Histogram whose errors had another shape.
C2_WitnessFill ==
    /\ last.op = "fill"
    /\ last.exc = "none"
    /\ Before.errors.shape # Before.data.shape
    /\ NObs(Batch) > 0

\* The two fills of the batch of the last call cut after its k-th
\* observation (the weights cut the same way), from the state the call
\* found: the first part then the second, and the second then the first.
SplitAB(k) ==
    fill(fill(Before, Part(Batch, 1, k), PartW(WeightsArg, 1, k)).self,
         Part(Batch, k + 1, NObs(Batch)), PartW(WeightsArg, k + 1, NObs(Batch)))
SplitBA(k) ==
    fill(fill(Before, Part(Batch, k + 1, NObs(Batch)), PartW(WeightsArg, k + 1, NObs(Batch))).self,
         Part(Batch, 1, k), PartW(WeightsArg, 1, k))
\* The places where a batch is cut in two (a cut after the last observation
\* is the cut before the first with the parts in the other order).
Cuts == 0 .. Max({0, NObs(Batch) - 1})
\* Every cell of data is below 2^53.
Below53(data) == \A idx \in DOMAIN data.cell : data.cell[idx].hi = 0

(***************************************************************************)
(* C3.  As claimed: one fill with a batch leaves the same data and         *)
(* out_range as two fills with the two parts of the batch, at whichever    *)
(* observation it is cut and in whichever order the two parts are filled   *)
(* (the weights cut the same way).                                         *)
(***************************************************************************)
C3_BatchSplit ==
    FillOk =>
        \A k \in Cuts :
            LET AB == SplitAB(k)
                BA == SplitBA(k)
            IN  /\ AB.exc = "none" /\ BA.exc = "none"
                /\ AB.self.data = After.data /\ AB.self.out_range = After.out_range
                /\ BA.self.data = After.data /\ BA.self.out_range = After.out_range

(***************************************************************************)
(* C3, amended.  One fill with a batch leaves the same out_range as two    *)
(* fills with the two parts of the batch, at whichever observation it is   *)
(* cut and in whichever order the two parts are filled, and the same data  *)
(* when the sums are exact in float64, as they are for weights that are    *)
(* non-negative integers (unit weights among them) as long as every cell   *)
(* of data stays below 2^53.  (Otherwise the additions round, differently  *)
(* for different groupings.)                                               *)
(***************************************************************************)
C3_BatchSplitAmended ==
    FillOk =>
        \A k \in Cuts :
            LET AB == SplitAB(k)
                BA == SplitBA(k)
            IN  /\ AB.exc = "none" /\ BA.exc = "none"
                /\ AB.self.out_range = After.out_range
                /\ BA.self.out_range = After.out_range
                /\ Below53(After.data) =>
                      AB.self.data = After.data /\ BA.self.data = After.data

\* A Histogram holding data has been filled with two observations of
\* different weights, both inside the range and in the bin that held data,
\* all sums being exact.
C3_Witness ==
    /\ last.op = "fill"
    /\ last.exc = "none"
    /\ NObs(Batch) = 2
    /\ WeightsArg # None
    /\ WeightOf(1) # WeightOf(2)
    /\ InRange(After.bins, Batch, 1) /\ InRange(After.bins, Batch, 2)
    /\ Below53(After.data)
    /\ \E i \in DOMAIN After.data.cell :
          /\ Whole(Before.data.cell[i]) > 0
          /\ Whole(After.data.cell[i]) = Whole(Before.data.cell[i]) + 3

\* A batch of three observations of one bin with the weights 2^53, 1 and 1
\* has been filled: the single fill rounds 2^53 + 1 to 2^53 twice, and the
\* fills of 2^53 and of the other two leave 2^53 + 2.
C3_WitnessRounding ==
    /\ last.op = "fill"
    /\ last.exc = "none"
    /\ NObs(Batch) = 3
    /\ WeightsArg = Some(<<Two53, Flt(1), Flt(1)>>)
    /\ \E i \in DOMAIN After.data.cell :
          /\ After.data.cell[i] = Two53
          /\ SplitAB(1).self.data.cell[i] = [hi |-> 1, lo |-> 2]

(***************************************************************************)
(* C4.  A fill whose data_weights has another length than the batch has    *)
(* observations raises ValueError and leaves every object, so data,        *)
(* out_range and errors of the Histogram, as it was; no other fill raises. *)
(***************************************************************************)
C4_WeightMismatch ==
    last.op = "fill" =>
        IF last.data_weights # None /\ Len(last.data_weights[1]) # NObs(last.additive)
        THEN last.exc = "ValueError" /\ heap = pre
        ELSE last.exc = "none"

\* A fill with one weight too many has raised on a Histogram holding data and
\* custom errors.
C4_Witness ==
    /\ last.op = "fill"
    /\ last.exc = "ValueError"
    /\ NObs(last.additive) > 0
    /\ SumCells(Before.data) > 0
    /\ Before.errors # np_sqrt(Before.data)

(***************************************************************************)
(* C5.  A fill that returns adds to out_range[0][i] the number of          *)
(* observations of the batch whose coordinate i is below the first edge of *)
(* dimension i and to out_range[1][i] the number above its last edge, for  *)
(* each dimension by itself and whatever the weights; no call lowers or    *)
(* resets an entry of out_range.                                           *)
(***************************************************************************)
C5_OutOfRange ==
    /\ FillOk =>
        \A i \in 1 .. Len(After.bins) :
            /\ After.out_range.cell[<<1, i>>] =
                   Before.out_range.cell[<<1, i>>]
                   + Cardinality({j \in 1 .. NObs(Batch) :
                        ~Batch[i][j].nan /\ Batch[i][j].v < After.bins[i][1]})
            /\ After.out_range.cell[<<2, i>>] =
                   Before.out_range.cell[<<2, i>>]
                   + Cardinality({j \in 1 .. NObs(Batch) :
                        ~Batch[i][j].nan /\ Batch[i][j].v > After.bins[i][Len(After.bins[i])]})
    /\ \A id \in DOMAIN pre : \A idx \in DOMAIN pre[id].out_range.cell :
            heap[id].out_range.cell[idx] >= pre[id].out_range.cell[idx]
    /\ (~FillOk /\ last.op # "init") => \A id \in DOMAIN pre : heap[id].out_range = pre[id].out_range

\* A weighted fill of a 2-dimensional Histogram with an observation below the
\* range of the first dimension and above the range of the second, on top of
\* an earlier tally.
C5_Witness ==
    /\ last.op = "fill"
    /\ last.exc = "none"
    /\ Len(After.bins) = 2
    /\ WeightsArg # None
    /\ \E j \in 1 .. NObs(Batch) :
          /\ WeightOf(j) = Flt(2)
          /\ Less(Batch[1][j], After.bins[1][1])
          /\ Greater(Batch[2][j], After.bins[2][Len(After.bins[2])])
    /\ SumCounts(Before.out_range) > 0

\* errors is the element-wise float64 square root of data.
IsSqrtOf(errors, data) ==
    /\ errors.shape = data.shape
    /\ \A idx \in DOMAIN data.cell :
          /\ errors.cell[idx] = Sqrt(as_f64(data.cell[idx]))
          /\ data.cell[idx] = Flt(0) => errors.cell[idx] = Zero
          /\ data.cell[idx] = Flt(1) => errors.cell[idx] = F64(-52, 2^25, 0)
          /\ data.cell[idx] = Flt(2) => errors.cell[idx] = F64(-52, 47453132, 109001677)
          /\ data.cell[idx] = Flt(4) => errors.cell[idx] = F64(-51, 2^25, 0)

(***************************************************************************)
(* C6.  After every fill that returns, errors is the element-wise square   *)
(* root (in float64: 0 of 0, 1 of 1, 1.4142135623730951 of 2, 2 of 4) of   *)
(* the updated data, whatever errors held before; update_errors() sets     *)
(* errors to sqrt(data) and update_errors(e) sets errors to e, both        *)
(* leaving data and out_range alone.                                       *)
(***************************************************************************)
C6_Errors ==
    /\ FillOk => IsSqrtOf(After.errors, After.data)
    /\ last.op = "update_errors" =>
        /\ After.data = Before.data
        /\ After.out_range = Before.out_range
        /\ last.errors # None => After.errors = last.errors[1]
        /\ last.errors = None => IsSqrtOf(After.errors, After.data)

\* A fill has returned on a Histogram that held custom errors and data, and
\* has left other errors than the custom ones.
C6_Witness ==
    /\ last.op = "fill"
    /\ last.exc = "none"
    /\ SumCells(Before.data) > 0
    /\ Before.errors # np_sqrt(Before.data)
    /\ After.errors # Before.errors
    /\ SumCells(After.data) > SumCells(Before.data)

(***************************************************************************)
(* C10.  As claimed: a 1-dimensional Histogram filled with unit weights    *)
(* only holds every observation once, sum(data) + out_range[0][0] +        *)
(* out_range[1][0] being the number of observations filled.                *)
(***************************************************************************)
C10_NoneLost ==
    \A id \in Ids :
        (Len(heap[id].bins) = 1 /\ nobs[id].unit) =>
            SumCells(heap[id].data) + heap[id].out_range.cell[<<1, 1>>]
                + heap[id].out_range.cell[<<2, 1>>] = nobs[id].n

(***************************************************************************)
(* C10, amended.  An observation adds its weight to exactly one cell of    *)
(* data if, in every dimension, its coordinate lies between the first and  *)
(* the last edge, both included, and adds nothing to data otherwise; a     *)
(* 1-dimensional Histogram filled with unit weights only has               *)
(* sum(data) + out_range[0][0] + out_range[1][0] equal to the number of    *)
(* observations filled whose coordinate is not NaN: a NaN is counted       *)
(* neither in data nor in out_range.                                       *)
(***************************************************************************)
C10_Agreement ==
    /\ FillOk =>
        /\ SumCells(After.data) - SumCells(Before.data) =
              SumOver([j \in 1 .. NObs(Batch) |->
                          IF InRange(After.bins, Batch, j) THEN Whole(WeightOf(j)) ELSE 0],
                      1 .. NObs(Batch))
        /\ \A idx \in DOMAIN After.data.cell :
              /\ After.data.cell[idx].hi = 0
              /\ Whole(After.data.cell[idx]) >= Whole(Before.data.cell[idx])
        /\ NObs(Batch) = 1 =>
              Cardinality({idx \in DOMAIN After.data.cell :
                              After.data.cell[idx] # Before.data.cell[idx]})
                 = IF InRange(After.bins, Batch, 1) THEN 1 ELSE 0
    /\ \A id \in Ids :
        (Len(heap[id].bins) = 1 /\ nobs[id].unit) =>
            SumCells(heap[id].data) + heap[id].out_range.cell[<<1, 1>>]
                + heap[id].out_range.cell[<<2, 1>>] = nobs[id].n - nobs[id].nan

\* A 1-dimensional Histogram has been filled, with unit weights, with an
\* observation on its last edge and a NaN.
C10_Witness ==
    /\ last.op = "fill"
    /\ last.exc = "none"
    /\ Len(After.bins) = 1
    /\ nobs[last.id].unit
    /\ nobs[last.id].nan = 1
    /\ nobs[last.id].n = 2
    /\ \E j \in 1 .. NObs(Batch) :
          ~Batch[1][j].nan /\ Batch[1][j].v = After.bins[1][Len(After.bins[1])]
    /\ SumCells(After.data) = 1

(***************************************************************************)
(* Merges.                                                                 *)
(***************************************************************************)

\* The last call was self + other with other a Histogram.
IsMerge == last.op = "add" /\ last.other # None
Left == heap[last.id]
Right == heap[last.other[1]]
Merged == last.ret[1]

(***************************************************************************)
(* C1.  h1 + h2 of two Histograms whose bins are not identical raises the  *)
(* incompatible-binning ValueError and produces no Histogram.              *)
(***************************************************************************)
C1_RejectsMismatch ==
    (IsMerge /\ Left.bins # Right.bins) =>
        /\ last.exc = "ValueError"
        /\ last.msg = "Histogram binning is not compatible"
        /\ last.ret = None

(***************************************************************************)
(* C7.  As claimed: h1 + h2 of two Histograms of identical bins is a new   *)
(* Histogram with the sums of data and of out_range, the quadrature sum of *)
(* the operands' current errors and the left operand's title, labels and   *)
(* scale.                                                                  *)
(***************************************************************************)
C7_MergeSums ==
    (IsMerge /\ Left.bins = Right.bins) =>
        /\ last.exc = "none"
        /\ ~last.same
        /\ Merged.data.shape = Left.data.shape
        /\ \A idx \in DOMAIN Left.data.cell :
              Merged.data.cell[idx] = fadd(Left.data.cell[idx], Right.data.cell[idx])
        /\ \A idx \in DOMAIN Left.out_range.cell :
              Merged.out_range.cell[idx] = Left.out_range.cell[idx] + Right.out_range.cell[idx]
        /\ Left.errors.shape = Right.errors.shape =>
              /\ Merged.errors.shape = Left.errors.shape
              /\ \A idx \in DOMAIN Left.errors.cell :
                    Merged.errors.cell[idx] =
                        Sqrt(f64_add(Square(Left.errors.cell[idx]),
                                     Square(Right.errors.cell[idx])))
        /\ Merged.title = Left.title /\ Merged.labels = Left.labels
        /\ Merged.scale = Left.scale /\ Merged.bins = Left.bins

(***************************************************************************)
(* C7, amended.  The claim holds of two Histograms of identical bins whose *)
(* errors arrays have the shape of data, as they have unless update_errors *)
(* installed an array of another shape; when the shapes of the two errors  *)
(* arrays do not broadcast together, h1 + h2 raises ValueError and         *)
(* produces no Histogram.  Neither operand is changed.                     *)
(***************************************************************************)
C7_MergeAmended ==
    /\ (/\ IsMerge /\ Left.bins = Right.bins
        /\ Left.errors.shape = Left.data.shape
        /\ Right.errors.shape = Right.data.shape) => C7_MergeSums
    /\ (IsMerge /\ Left.bins = Right.bins /\ ~broadcastable(Left.errors, Right.errors)) =>
          last.exc = "ValueError" /\ last.ret = None
    /\ last.op \in {"add", "radd"} => heap = pre

\* Two different Histograms of identical bins and different titles, labels
\* and scales, both holding data and out of range counts, the left one with
\* custom errors, have been added.
C7_Witness ==
    /\ IsMerge
    /\ last.exc = "none"
    /\ last.id # last.other[1]
    /\ Left.bins = Right.bins
    /\ Left.title # Right.title /\ Left.scale # Right.scale
    /\ SumCells(Left.data) > 0 /\ SumCells(Right.data) > 0
    /\ Left.errors # np_sqrt(Left.data)
    /\ Left.errors.shape = Left.data.shape
    /\ Right.errors.shape = Right.data.shape
    /\ Merged.errors # np_sqrt(Merged.data)

\* A Histogram with its default errors, sqrt(2) in a cell, has been added to
\* one with errors 1: the merged errors hold sqrt(2.0000000000000004 + 1),
\* 1.7320508075688774, and not sqrt(3), 1.7320508075688772.
C7_WitnessRounding ==
    /\ IsMerge
    /\ last.exc = "none"
    /\ Left.errors = np_sqrt(Left.data)
    /\ \E idx \in DOMAIN Left.errors.cell :
          /\ Left.errors.cell[idx] = Sqrt(Exact(2))
          /\ Square(Left.errors.cell[idx]) = F64(-51, 2^25, 1)
    /\ \E idx \in DOMAIN Merged.errors.cell :
          /\ Merged.errors.cell[idx] = F64(-52, 58117981, 5786795)
          /\ Sqrt(Exact(3)) = F64(-52, 58117981, 5786794)

\* Two Histograms of identical bins have been added and the sum has raised.
C7_WitnessRaise ==
    /\ IsMerge
    /\ Left.bins = Right.bins
    /\ last.exc = "ValueError"

\* The Histograms of a sequence of objects.
Objects(ids) == [k \in 1 .. Len(ids) |-> heap[ids[k]]]
\* The element-wise sum of one array over a sequence of Histograms.
RECURSIVE SumData(_, _)
SumData(hs, idx) ==
    IF hs = <<>> THEN 0 ELSE Whole(Head(hs).data.cell[idx]) + SumData(Tail(hs), idx)
RECURSIVE SumOutRange(_, _)
SumOutRange(hs, idx) ==
    IF hs = <<>> THEN 0 ELSE Head(hs).out_range.cell[idx] + SumOutRange(Tail(hs), idx)
\* The non-empty sequences of at most MaxFold objects of identical bins.
FoldSeqs ==
    {ids \in UNION {[1 .. m -> Ids] : m \in 1 .. MaxFold} :
        \A k \in 1 .. Len(ids) : heap[ids[k]].bins = heap[ids[1]].bins}
\* The fold is the sum of data and of out_range over the sequence.
FoldSums(ids) ==
    LET r == fold_add(None, Objects(ids))
    IN  /\ r.exc = "none"
        /\ \A idx \in DOMAIN heap[ids[1]].data.cell :
              r.ret[1].data.cell[idx] = Flt(SumData(Objects(ids), idx))
        /\ \A idx \in DOMAIN heap[ids[1]].out_range.cell :
              r.ret[1].out_range.cell[idx] = SumOutRange(Objects(ids), idx)
\* h + None and None + h return the object h itself and change nothing.
IdentityOfNone ==
    ((last.op = "add" /\ last.other = None) \/ last.op = "radd") =>
        /\ last.exc = "none"
        /\ last.same
        /\ last.ret = Some(heap[last.id])
        /\ last.msg = ""
        /\ heap = pre

(***************************************************************************)
(* C8.  As claimed: h + None and None + h return h itself, unchanged and   *)
(* unchecked, so the left fold of + from None over any sequence of         *)
(* Histograms of identical bins has the sums of their data and out_range.  *)
(***************************************************************************)
C8_NoneIdentity ==
    /\ IdentityOfNone
    /\ last.op = "radd" => \A ids \in FoldSeqs : FoldSums(ids)

(***************************************************************************)
(* C8, amended.  h + None and None + h return h itself, unchanged and      *)
(* unchecked, and the left fold of + from None over a sequence of          *)
(* Histograms of identical bins whose errors have the shape of data (as    *)
(* they have unless update_errors installed an array of another shape)     *)
(* has the sums of their data and out_range.                               *)
(***************************************************************************)
C8_NoneIdentityAmended ==
    /\ IdentityOfNone
    /\ last.op = "radd" =>
          \A ids \in FoldSeqs :
              (\A k \in 1 .. Len(ids) : heap[ids[k]].errors.shape = heap[ids[k]].data.shape)
                  => FoldSums(ids)

\* None + h has returned h for a Histogram h holding data and custom errors
\* while another Histogram of the same bins holds data too: the folds of the
\* two are among those summed.
C8_Witness ==
    /\ last.op = "radd"
    /\ last.same
    /\ SumCells(heap[last.id].data) > 0
    /\ heap[last.id].errors # np_sqrt(heap[last.id].data)
    /\ heap[last.id].errors.shape = heap[last.id].data.shape
    /\ \E o \in Ids : /\ o # last.id
                      /\ heap[o].bins = heap[last.id].bins
                      /\ SumCells(heap[o].data) > 0
                      /\ heap[o].errors.shape = heap[o].data.shape

(***************************************************************************)
(* The manager.                                                            *)
(***************************************************************************)

\* What fill(batch) with unit weights, called for each item of additives
\* whose key is registered to the object id, makes of the Histogram h.
RECURSIVE DirectFills(_, _, _)
DirectFills(h, additives, id) ==
    IF additives = <<>> THEN h
    ELSE DirectFills(IF /\ Head(additives).key \in DOMAIN histos
                        /\ histos[Head(additives).key] = id
                     THEN fill(h, Head(additives).additive, None).self
                     ELSE h,
                     Tail(additives), id)
\* The keys of additives that are not registered, in order.
MissingKeys(additives) ==
    SelectSeq([k \in 1 .. Len(additives) |-> additives[k].key],
              LAMBDA key : key \notin DOMAIN histos)

(***************************************************************************)
(* C9.  fill_histograms(additives) changes each Histogram registered under *)
(* a key of additives as fill(batch) with unit weights would; for a key    *)
(* that is not registered it raises nothing, skips the item, adds no entry *)
(* to histos and goes on with the remaining items; the Histograms not      *)
(* named in additives stay as they were.                                   *)
(***************************************************************************)
C9_FillByName ==
    last.op = "fill_histograms" =>
        /\ last.exc = "none"
        /\ histos = last.was
        /\ Len(heap) = Len(pre)
        /\ \A id \in Ids : heap[id] = DirectFills(pre[id], last.additives, id)
        /\ \A id \in Ids :
              (\A k \in 1 .. Len(last.additives) :
                   last.additives[k].key \in DOMAIN histos => histos[last.additives[k].key] # id)
                  => heap[id] = pre[id]
        /\ last.missing = MissingKeys(last.additives)

\* additives named a missing key first and then a registered one, whose
\* Histogram was filled while another registered Histogram stayed as it was.
C9_Witness ==
    /\ last.op = "fill_histograms"
    /\ Len(last.additives) = 2
    /\ last.additives[1].key \notin DOMAIN histos
    /\ last.additives[2].key \in DOMAIN histos
    /\ heap[histos[last.additives[2].key]] # pre[histos[last.additives[2].key]]
    /\ \E key \in DOMAIN histos :
          /\ histos[key] # histos[last.additives[2].key]
          /\ heap[histos[key]] = pre[histos[key]]

====
